---- MODULE Spec2Model ----
(***************************************************************************)
(* Field dependency resolution and incremental validation of tool2agent:   *)
(* packages/ai/src/builder/{graph,validation,builder}.ts.                  *)
(*                                                                         *)
(* A tool specification is an insertion-ordered object: a sequence of      *)
(* entries [key, requires].  JavaScript `undefined` is the value Undefined; *)
(* a property holding undefined and an absent property are the same thing  *)
(* to every read of the code (all of them test typeof v !== 'undefined').  *)
(***************************************************************************)
EXTENDS Integers, Sequences, FiniteSets, TLC

\* Candidate dynamic field names; every name is a non-empty property name.
Names == {"a", "b", "c"}
\* A field of the input schema that is never declared dynamic.
StaticNames == {"s"}
AllNames == Names \cup StaticNames

\* Longest requires list of distinct names a field declaration is given.
MaxRequires == 2

Undefined == "undefined"

RECURSIVE SeqsUpTo(_, _)
SeqsUpTo(S, n) ==
    IF n = 0 THEN {<<>>}
    ELSE LET shorter == SeqsUpTo(S, n - 1)
         IN  shorter \cup {Append(q, x) : q \in {r \in shorter : Len(r) = n - 1}, x \in S}

\* The requires lists of a field declaration: lists of distinct names, and a name
\* listed twice.
RequiresLists ==
    {q \in SeqsUpTo(Names, MaxRequires) : \A i, j \in DOMAIN q : q[i] = q[j] => i = j}
        \cup {<<x, x>> : x \in Names}

Range(q) == {q[i] : i \in DOMAIN q}

-----------------------------------------------------------------------------
(* The specification object *)

\* Object.keys(spec): the keys in insertion order.
Keys(spec) == [i \in DOMAIN spec |-> spec[i].key]

KeySet(spec) == {spec[i].key : i \in DOMAIN spec}

\* spec[node]?.requires ?? []
RequiresOf(spec, node) ==
    IF node \in KeySet(spec)
    THEN spec[CHOOSE i \in DOMAIN spec : spec[i].key = node].requires
    ELSE <<>>

-----------------------------------------------------------------------------
(* graph.ts: detectRequiresCycles *)

\* path.indexOf(node), 1-based; -1 becomes 0
IndexOf(path, node) ==
    IF node \in Range(path)
    THEN CHOOSE i \in DOMAIN path : path[i] = node /\ \A j \in 1..(i - 1) : path[j] # node
    ELSE 0

\* path.slice(start) for the 1-based index start; slice(-1) is the last element
Slice(path, start) ==
    IF start = 0 THEN SubSeq(path, Len(path), Len(path))
    ELSE SubSeq(path, start, Len(path))

RECURSIVE dfs(_, _, _, _)
RECURSIVE dfsNeighbors(_, _, _, _, _)

\* A cycle recorded as the whole path instead of its suffix from cycleStart.
dfsWholePath(spec, node, path, st) ==
    IF node \in st.inStack
    THEN [st EXCEPT !.cycles = Append(@, path)]
    ELSE IF node \in st.visited THEN st
    ELSE LET entered == [st EXCEPT !.visited = @ \cup {node}, !.inStack = @ \cup {node}]
             after == dfsNeighbors(spec, RequiresOf(spec, node), 1, Append(path, node), entered)
         IN  [after EXCEPT !.inStack = @ \ {node}]

dfs(spec, node, path, st) ==
    IF node \in st.inStack
    THEN [st EXCEPT !.cycles = Append(@, Slice(path, IndexOf(path, node)))]
    ELSE IF node \in st.visited THEN st
    ELSE LET entered == [st EXCEPT !.visited = @ \cup {node}, !.inStack = @ \cup {node}]
             after == dfsNeighbors(spec, RequiresOf(spec, node), 1, Append(path, node), entered)
         IN  [after EXCEPT !.inStack = @ \ {node}]

\* for (const neighbor of requires) dfs(neighbor, [...path, node])
dfsNeighbors(spec, requires, i, path, st) ==
    IF i > Len(requires) THEN st
    ELSE dfsNeighbors(spec, requires, i + 1, path, dfs(spec, requires[i], path, st))

RECURSIVE dfsRoots(_, _, _)
\* for (const key of Object.keys(spec)) dfs(key, [])
dfsRoots(spec, i, st) ==
    IF i > Len(spec) THEN st
    ELSE dfsRoots(spec, i + 1, dfs(spec, spec[i].key, <<>>, st))

detectRequiresCycles(spec) ==
    dfsRoots(spec, 1, [visited |-> {}, inStack |-> {}, cycles |-> <<>>]).cycles

-----------------------------------------------------------------------------
(* graph.ts: toposortFields *)

\* The collation rank of a name: x.localeCompare(y) has the sign of the difference.
Rank(x) ==
    CASE x = "" -> 0
      [] x = "a" -> 1
      [] x = "b" -> 2
      [] x = "c" -> 3
      [] OTHER -> 4

localeCompare(x, y) == Rank(x) - Rank(y)

sortReady(x, y) == localeCompare(x, y)

RECURSIVE InsertStable(_, _)
\* x placed behind every element that does not compare greater than it
InsertStable(sorted, x) ==
    IF sorted = <<>> THEN <<x>>
    ELSE IF sortReady(Head(sorted), x) <= 0
         THEN <<Head(sorted)>> \o InsertStable(Tail(sorted), x)
         ELSE <<x>> \o sorted

RECURSIVE SortBy(_, _)
SortBy(q, done) ==
    IF q = <<>> THEN done ELSE SortBy(Tail(q), InsertStable(done, Head(q)))

\* ready.sort(sortReady) left as the array was.
SortUnsorted(q) == q

\* Array.prototype.sort(sortReady): a stable sort
Sort(q) == SortBy(q, <<>>)

Count(q, x) == Cardinality({i \in DOMAIN q : q[i] = x})

RECURSIVE Repeat(_, _)
Repeat(x, n) == IF n = 0 THEN <<>> ELSE <<x>> \o Repeat(x, n - 1)

RECURSIVE DependentsOf(_, _, _)
\* dependents.get(r) once the adjacency is built: k once per occurrence of r
\* in k's requires, in key order
DependentsOf(spec, r, i) ==
    IF i > Len(spec) THEN <<>>
    ELSE Repeat(spec[i].key, Count(spec[i].requires, r)) \o DependentsOf(spec, r, i + 1)

\* !current
Falsy(current) == current = ""

RECURSIVE relax(_, _, _)
\* A dependent pushed on every decrement, not only when its in-degree reaches 0.
relaxEager(deps, ready, inDegree) ==
    IF deps = <<>> THEN [ready |-> ready, inDegree |-> inDegree]
    ELSE LET dep == Head(deps)
             nextDeg == inDegree[dep] - 1
             inDegree2 == [inDegree EXCEPT ![dep] = nextDeg]
         IN  relax(Tail(deps), Sort(Append(ready, dep)), inDegree2)

\* for (const dep of deps) { decrement; if 0: push and sort }
relax(deps, ready, inDegree) ==
    IF deps = <<>> THEN [ready |-> ready, inDegree |-> inDegree]
    ELSE LET dep == Head(deps)
             nextDeg == inDegree[dep] - 1
             inDegree2 == [inDegree EXCEPT ![dep] = nextDeg]
         IN  IF nextDeg = 0
             THEN relax(Tail(deps), Sort(Append(ready, dep)), inDegree2)
             ELSE relax(Tail(deps), ready, inDegree2)

RECURSIVE kahn(_, _, _, _)
\* while (ready.length > 0) { ... }
kahn(spec, ready, order, inDegree) ==
    IF ready = <<>> THEN order
    ELSE LET current == Head(ready)
         IN  IF Falsy(current) THEN order
             ELSE LET r == relax(DependentsOf(spec, current, 1), Tail(ready), inDegree)
                  IN  kahn(spec, r.ready, Append(order, current), r.inDegree)

\* The result is [threw, order]; threw stands for the Error
\* 'Cycle detected or missing nodes during toposort'.
toposortFields(spec) ==
    LET keys == Keys(spec)
        inDegree == [k \in KeySet(spec) |-> Len(RequiresOf(spec, k))]
        ready == Sort(SelectSeq(keys, LAMBDA k : inDegree[k] = 0))
        order == kahn(spec, ready, <<>>, inDegree)
    IN  IF Len(order) # Len(keys)
        THEN [threw |-> TRUE, order |-> <<>>]
        ELSE [threw |-> FALSE, order |-> order]

-----------------------------------------------------------------------------
(* validation.ts: validateToolSpec *)

RECURSIVE Join(_, _)
\* parts.join(sep) as the sequence of its pieces
Join(parts, sep) ==
    IF parts = <<>> THEN <<>>
    ELSE IF Len(parts) = 1 THEN Head(parts)
    ELSE Head(parts) \o <<sep>> \o Join(Tail(parts), sep)

\* cycles.map(c => c.join(' -> ')).join('; ')
CycleMessage(cycles) ==
    Join([i \in DOMAIN cycles |-> Join([j \in DOMAIN cycles[i] |-> <<cycles[i][j]>>], " -> ")], "; ")

\* Throws only when more than one cycle was found.
validateToolSpecLax(spec) ==
    LET cycles == detectRequiresCycles(spec)
    IN  IF Len(cycles) > 1
        THEN [threw |-> TRUE, cycles |-> cycles,
              message |-> <<"Cycle detected in requires graph: ">> \o CycleMessage(cycles)]
        ELSE [threw |-> FALSE, cycles |-> cycles, message |-> <<>>]

\* The result is [threw, cycles, message]
validateToolSpec(spec) ==
    LET cycles == detectRequiresCycles(spec)
    IN  IF Len(cycles) > 0
        THEN [threw |-> TRUE, cycles |-> cycles,
              message |-> <<"Cycle detected in requires graph: ">> \o CycleMessage(cycles)]
        ELSE [threw |-> FALSE, cycles |-> cycles, message |-> <<>>]

-----------------------------------------------------------------------------
(* validation.ts: the values of one call *)

\* What the caller may put in a field of the input.
RawValues == {Undefined, "john"}
\* What a validator may return as normalizedValue (Undefined: none returned).
NormalizedValues == {Undefined, "john", "John"}

\* The input objects: every property of the schema, absent ones as Undefined.
Inputs == [AllNames -> RawValues]

\* A ParameterValidationResult; an absent property is Undefined or <<>>.
Outcome(valid, normalizedValue, problems, requiresValidParameters) ==
    [valid |-> valid, normalizedValue |-> normalizedValue, problems |-> problems,
     requiresValidParameters |-> requiresValidParameters]

\* The results a field's validate() may resolve to.
ValidatorOutcomes ==
    {Outcome(v, n, IF v THEN <<>> ELSE <<"problem">>, <<>>) : v \in BOOLEAN, n \in NormalizedValues}

NoFields == [k \in AllNames |-> Undefined]

\* Object.fromEntries(entries), entries a set of <<key, value>> that agree on each key
fromEntries(entries) ==
    [k \in AllNames |->
        IF \E e \in entries : e[1] = k
        THEN (CHOOSE e \in entries : e[1] = k)[2]
        ELSE Undefined]

\* The update taken alone, the object dropped.
SpreadReplace(object, update) == fromEntries(update)

\* {...object, ...update}
Spread(object, update) ==
    [k \in AllNames |->
        IF \E e \in update : e[1] = k
        THEN (CHOOSE e \in update : e[1] = k)[2]
        ELSE object[k]]

-----------------------------------------------------------------------------
(* validation.ts: buildContext *)

\* Every entry of requires reported missing, whether or not it is present.
buildContextAllMissing(requires, fieldKey, validFields, dynamicSet) ==
    IF \E i \in DOMAIN requires : validFields[requires[i]] = Undefined
    THEN [success |-> FALSE, missingRequirements |-> requires, context |-> NoFields]
    ELSE [success |-> TRUE, missingRequirements |-> <<>>,
          context |-> [k \in AllNames |-> IF k = fieldKey THEN Undefined ELSE validFields[k]]]

\* The result is [success, missingRequirements, context]
\* Missing requirements detected but not named.
buildContextNoNames(requires, fieldKey, validFields, dynamicSet) ==
    IF \E i \in DOMAIN requires : validFields[requires[i]] = Undefined
    THEN [success |-> FALSE, missingRequirements |-> <<>>, context |-> NoFields]
    ELSE buildContextAllMissing(requires, fieldKey, validFields, dynamicSet)

\* Missing requirements never reported.
buildContextNeverMissing(requires, fieldKey, validFields, dynamicSet) ==
    [success |-> TRUE, missingRequirements |-> <<>>,
     context |-> [k \in AllNames |-> IF k = fieldKey THEN Undefined ELSE validFields[k]]]

\* Only the required fields put in the context.
buildContextRequiresOnly(requires, fieldKey, validFields, dynamicSet) ==
    IF \E i \in DOMAIN requires : validFields[requires[i]] = Undefined
    THEN buildContextNoNames(requires, fieldKey, validFields, dynamicSet)
    ELSE [success |-> TRUE, missingRequirements |-> <<>>,
          context |-> fromEntries({<<r, validFields[r]>> : r \in Range(requires)})]

buildContext(requires, fieldKey, validFields, dynamicSet) ==
    LET missing == SelectSeq(requires, LAMBDA dep : validFields[dep] = Undefined)
        requiredEntries ==
            {<<r, validFields[r]>> : r \in {x \in Range(requires) : validFields[x] # Undefined}}
        staticEntries ==
            {<<k, validFields[k]>> :
                k \in {x \in AllNames : /\ x # fieldKey
                                        /\ x \notin dynamicSet
                                        /\ validFields[x] # Undefined}}
        dynamicEntries ==
            {<<k, validFields[k]>> :
                k \in {x \in AllNames : /\ x # fieldKey
                                        /\ x \notin Range(requires)
                                        /\ x \in dynamicSet
                                        /\ validFields[x] # Undefined}}
    IN  IF Len(missing) > 0
        THEN [success |-> FALSE, missingRequirements |-> missing, context |-> NoFields]
        ELSE [success |-> TRUE, missingRequirements |-> <<>>,
              context |-> fromEntries(requiredEntries \cup staticEntries \cup dynamicEntries)]

-----------------------------------------------------------------------------
(* validation.ts: initializeStaticFields, sortFields, processValidationResult *)

\* No static field seeded.
initializeStaticFieldsNone(dynamicInput, dynamicSet) == NoFields

\* The whole input seeded, dynamic fields included.
initializeStaticFieldsAll(dynamicInput, dynamicSet) == dynamicInput

initializeStaticFields(dynamicInput, dynamicSet) ==
    [k \in AllNames |->
        IF k \notin dynamicSet /\ dynamicInput[k] # Undefined THEN dynamicInput[k] ELSE Undefined]

sortFields(spec) == toposortFields(spec)

\* No two values ever found equal.
isDeepStrictEqualNever(x, y) == FALSE

\* util.isDeepStrictEqual on the values of the model
isDeepStrictEqual(x, y) == x = y

\* The raw value folded even when a normalizedValue was returned.
processValidationResultRaw(fieldKey, value, validationResult) ==
    [validationResult |->
        IF isDeepStrictEqual(value, validationResult.normalizedValue)
        THEN [validationResult EXCEPT !.normalizedValue = Undefined]
        ELSE validationResult,
     validFields |-> IF validationResult.valid THEN {<<fieldKey, value>>} ELSE {}]

\* The value folded whether or not the outcome is valid.
processValidationResultFoldInvalid(fieldKey, value, validationResult) ==
    LET processedResult ==
            IF isDeepStrictEqual(value, validationResult.normalizedValue)
            THEN [validationResult EXCEPT !.normalizedValue = Undefined]
            ELSE validationResult
    IN  [validationResult |-> processedResult,
         validFields |->
            IF processedResult.normalizedValue # Undefined
            THEN {<<fieldKey, processedResult.normalizedValue>>}
            ELSE {<<fieldKey, value>>}]

\* The result is [validationResult, validFields]; validFields is the update to spread
processValidationResult(fieldKey, value, validationResult) ==
    LET processedResult ==
            IF isDeepStrictEqual(value, validationResult.normalizedValue)
            THEN [validationResult EXCEPT !.normalizedValue = Undefined]
            ELSE validationResult
    IN  [validationResult |-> processedResult,
         validFields |->
            IF processedResult.valid
            THEN IF processedResult.normalizedValue # Undefined
                 THEN {<<fieldKey, processedResult.normalizedValue>>}
                 ELSE {<<fieldKey, value>>}
            ELSE {}]

-----------------------------------------------------------------------------
(* validation.ts: validateToolInput *)

\* What the tool's execute came to: status "none" (still running), "threw" (error),
\* "returned" (ok, validationResults) or "executing" (params.execute was called
\* with input).
ToolResult(status, ok, error, validationResults, input) ==
    [status |-> status, ok |-> ok, error |-> error,
     validationResults |-> validationResults, input |-> input]

NoToolResult == ToolResult("none", FALSE, "none", <<>>, NoFields)

\* What a validator may throw.
ValidatorExceptions == {"Error: lookup failed", "TypeError: not a string"}

\* One call.  pc: "idle" | "awaiting" (a validator is in flight) | "done" | "threw".
\* trace has one entry per field visited, with what the loop saw at that moment.
IdleCall ==
    [pc |-> "idle", loose |-> NoFields, validFields |-> NoFields,
     validationResults |-> <<>>, sortedFields |-> <<>>, idx |-> 0, trace |-> <<>>,
     result |-> [status |-> "none", value |-> NoFields, validationResults |-> <<>>],
     error |-> "none", tool |-> NoToolResult]

NoOutcome == Outcome(FALSE, Undefined, <<>>, <<>>)

TraceEntry(field, kind, value, context, validFields) ==
    [field |-> field, kind |-> kind, value |-> value, context |-> context,
     validFields |-> validFields, returned |-> NoOutcome, threw |-> "none"]

\* validationResults[key] = outcome
Record(validationResults, key, outcome) ==
    [k \in (DOMAIN validationResults) \cup {key} |->
        IF k = key THEN outcome ELSE validationResults[k]]

\* Accepted as soon as some field is valid.
decideAnyValid(c) ==
    IF \E k \in DOMAIN c.validationResults : c.validationResults[k].valid
    THEN [c EXCEPT !.pc = "done",
                   !.result = [status |-> "accepted", value |-> c.validFields,
                               validationResults |-> <<>>]]
    ELSE [c EXCEPT !.pc = "done",
                   !.result = [status |-> "rejected", value |-> NoFields,
                               validationResults |-> c.validationResults]]

\* A rejected result carrying only the outcomes with valid:false.
decideInvalidOnly(c) ==
    LET invalid == {k \in DOMAIN c.validationResults : ~c.validationResults[k].valid}
    IN  IF invalid # {}
        THEN [c EXCEPT !.pc = "done",
                       !.result = [status |-> "rejected", value |-> NoFields,
                                   validationResults |->
                                       [k \in invalid |-> c.validationResults[k]]]]
        ELSE [c EXCEPT !.pc = "done",
                       !.result = [status |-> "accepted", value |-> c.validFields,
                                   validationResults |-> <<>>]]

\* From the end of the loop to the return
decide(c) ==
    LET allValidOrSkipped ==
            \A i \in DOMAIN c.sortedFields :
                LET k == c.sortedFields[i]
                IN  k \notin DOMAIN c.validationResults \/ c.validationResults[k].valid # FALSE
    IN  IF ~allValidOrSkipped
        THEN [c EXCEPT !.pc = "done",
                       !.result = [status |-> "rejected", value |-> NoFields,
                                   validationResults |-> c.validationResults]]
        ELSE [c EXCEPT !.pc = "done",
                       !.result = [status |-> "accepted", value |-> c.validFields,
                                   validationResults |-> <<>>]]

RECURSIVE iterate(_, _)
\* The loop from field number c.idx on, up to the next await or to the return
iterate(spec, c) ==
    IF c.idx > Len(c.sortedFields) THEN decide(c)
    ELSE LET dynamicField == c.sortedFields[c.idx]
             value == c.loose[dynamicField]
             contextResult ==
                 buildContext(RequiresOf(spec, dynamicField), dynamicField,
                              c.validFields, KeySet(spec))
         IN  IF dynamicField \notin KeySet(spec)
             THEN [c EXCEPT !.pc = "threw", !.error = "Field spec not found"]
             ELSE IF ~contextResult.success
             THEN iterate(spec,
                    [c EXCEPT
                        !.validationResults =
                            Record(@, dynamicField,
                                   Outcome(FALSE, Undefined, <<>>,
                                           contextResult.missingRequirements)),
                        !.trace = Append(@, TraceEntry(dynamicField, "skipped", value,
                                                       NoFields, c.validFields)),
                        !.idx = @ + 1])
             ELSE [c EXCEPT
                        !.pc = "awaiting",
                        !.trace = Append(@, TraceEntry(dynamicField, "invoked", value,
                                                       contextResult.context,
                                                       c.validFields))]

\* validateToolInput(spec, loose) up to its first await
validateToolInput(spec, loose) ==
    LET dynamicSet == KeySet(spec)
        sorted == sortFields(spec)
        c == [IdleCall EXCEPT !.loose = loose,
                              !.validFields = initializeStaticFields(loose, dynamicSet),
                              !.sortedFields = sorted.order,
                              !.idx = 1]
    IN  IF sorted.threw
        THEN [c EXCEPT !.pc = "threw",
                       !.error = "Cycle detected or missing nodes during toposort"]
        ELSE iterate(spec, c)

\* The loop left as soon as an outcome is valid:false.
resumeStopAtInvalid(spec, c, validationResult) ==
    LET dynamicField == c.sortedFields[c.idx]
        value == c.loose[dynamicField]
        processed == processValidationResult(dynamicField, value, validationResult)
        folded == [c EXCEPT
                    !.validFields = Spread(@, processed.validFields),
                    !.validationResults =
                        Record(@, dynamicField, processed.validationResult),
                    !.trace = [@ EXCEPT ![Len(@)].returned = validationResult],
                    !.idx = @ + 1]
    IN  IF validationResult.valid THEN iterate(spec, folded) ELSE decide(folded)

\* The loop never moving on to the next field.
resumeNoAdvance(spec, c, validationResult) ==
    LET dynamicField == c.sortedFields[c.idx]
        value == c.loose[dynamicField]
        processed == processValidationResult(dynamicField, value, validationResult)
    IN  iterate(spec,
            [c EXCEPT
                !.validFields = Spread(@, processed.validFields),
                !.validationResults = Record(@, dynamicField, processed.validationResult),
                !.trace = [@ EXCEPT ![Len(@)].returned = validationResult]])

\* The awaited validate() resolved to validationResult: the rest of the loop body,
\* then the loop up to the next await or to the return
resume(spec, c, validationResult) ==
    LET dynamicField == c.sortedFields[c.idx]
        value == c.loose[dynamicField]
        processed == processValidationResult(dynamicField, value, validationResult)
    IN  iterate(spec,
            [c EXCEPT
                !.validFields = Spread(@, processed.validFields),
                !.validationResults = Record(@, dynamicField, processed.validationResult),
                !.trace = [@ EXCEPT ![Len(@)].returned = validationResult],
                !.idx = @ + 1])

\* The exception caught and reported as a rejected result.
rethrowCaught(c, exception) ==
    [c EXCEPT !.pc = "done",
              !.trace = [@ EXCEPT ![Len(@)].threw = exception],
              !.result = [status |-> "rejected", value |-> NoFields,
                          validationResults |-> c.validationResults]]

\* The awaited validate() threw or rejected with exception: the await rethrows it
\* and nothing in validateToolInput catches it
rethrow(c, exception) ==
    [c EXCEPT !.pc = "threw",
              !.error = exception,
              !.trace = [@ EXCEPT ![Len(@)].threw = exception]]

-----------------------------------------------------------------------------
(* builder.ts: the execute of the tool that build() returns *)

\* params.execute called whatever the validation said.
executeAlways(c) ==
    IF c.pc = "threw"
    THEN [c EXCEPT !.tool = ToolResult("threw", FALSE, c.error, <<>>, NoFields)]
    ELSE IF c.pc = "done"
    THEN [c EXCEPT !.tool = ToolResult("executing", FALSE, "none", <<>>, c.validFields)]
    ELSE c

\* What execute does once validateToolInput has returned or thrown
execute(c) ==
    IF c.pc = "threw"
    THEN [c EXCEPT !.tool = ToolResult("threw", FALSE, c.error, <<>>, NoFields)]
    ELSE IF c.pc = "done" /\ c.result.status = "rejected"
    THEN [c EXCEPT !.tool = ToolResult("returned", FALSE, "none",
                                       c.result.validationResults, NoFields)]
    ELSE IF c.pc = "done"
    THEN [c EXCEPT !.tool = ToolResult("executing", FALSE, "none", <<>>, c.result.value)]
    ELSE c

-----------------------------------------------------------------------------
(* middleware-idempotency: idempotency() *)

MaxCalls == 3

\* Inputs of the wrapped tool: objects as lists of <<key, value>> in insertion
\* order.  The last two are deep-equal.
IdempotencyInputs ==
    {<<<<"query", "x">>>>,
     <<<<"query", "y">>>>,
     <<<<"query", "x">>, <<"limit", "1">>>>,
     <<<<"limit", "1">>, <<"query", "x">>>>}

\* Deep equality of two inputs: the same keys with the same values
DeepEqual(x, y) == Range(x) = Range(y)

\* object-hash of an input: a digest of its keys and values that does not depend
\* on the order of the keys
hash(input) == {<<"sha1", entry[1], entry[2]>> : entry \in Range(input)}

\* formatProblems and formatInstructions, by default or as given in the options
IdempotencyOptions ==
    {[formatProblems |->
        <<"Tool call processing skipped: the tool has been called with this payload already.">>,
      formatInstructions |->
        <<"This tool is idempotent. Avoid issuing duplicate tool calls in the future.">>],
     [formatProblems |-> <<"Duplicate call detected">>,
      formatInstructions |-> <<"Please avoid duplicate calls.">>]}

\* What a call of a tool comes to: status "none" | "returned" | "threw"
CallResult(status, ok, value, problems, instructions) ==
    [status |-> status, ok |-> ok, value |-> value,
     problems |-> problems, instructions |-> instructions]

NoCallResult == CallResult("none", FALSE, "none", <<>>, <<>>)

\* What the underlying execute may do: return ok:true, return ok:false, throw
ExecuteOutcomes ==
    {CallResult("returned", TRUE, "Processed", <<>>, <<>>),
     CallResult("returned", FALSE, "none", <<"underlying failure">>, <<>>),
     CallResult("threw", FALSE, "Error: underlying", <<>>, <<>>)}

\* No middleware applied yet
NoIdempotentTool ==
    [applied |-> FALSE, options |-> <<>>, hashes |-> {}, calls |-> <<>>]

\* idempotency(options).applyTo(tool): a fresh DefaultIdempotencySet
applyIdempotency(options) ==
    [applied |-> TRUE, options |-> options, hashes |-> {}, calls |-> <<>>]

\* One call of the wrapped execute.  pc: "awaitHas" | "awaitAdd" | "executing" |
\* "done" | "threw"; executed says whether the underlying execute was invoked
\* and underlying what it came to.
IdempotentCall(input, seen) ==
    [pc |-> "awaitHas", input |-> input, seen |-> seen, executed |-> FALSE,
     underlying |-> NoCallResult, result |-> NoCallResult]

\* execute(input, options) up to its first await: set.has(input) has answered
startIdempotent(st, input) ==
    [st EXCEPT !.calls = Append(@, IdempotentCall(input, hash(input) \in st.hashes))]

\* An input seen before let through.
afterHasNeverDuplicate(st, id) ==
    [st EXCEPT !.hashes = @ \cup {hash(st.calls[id].input)},
               !.calls[id].pc = "awaitAdd"]

\* From the await of set.has to the return of the duplicate answer, or through
\* set.add(input) to its await
afterHas(st, id) ==
    IF st.calls[id].seen
    THEN [st EXCEPT !.calls[id].pc = "done",
                    !.calls[id].result =
                        CallResult("returned", FALSE, "none",
                                   st.options.formatProblems, st.options.formatInstructions)]
    ELSE [st EXCEPT !.hashes = @ \cup {hash(st.calls[id].input)},
                    !.calls[id].pc = "awaitAdd"]

\* From the await of set.add to the invocation of the underlying execute
afterAdd(st, id) ==
    [st EXCEPT !.calls[id].pc = "executing", !.calls[id].executed = TRUE]

\* An input that failed forgotten again.
settleForgetFailed(st, id, outcome) ==
    [st EXCEPT !.hashes = IF outcome.status = "returned" /\ outcome.ok
                          THEN @
                          ELSE @ \ {hash(st.calls[id].input)},
               !.calls[id].pc = IF outcome.status = "threw" THEN "threw" ELSE "done",
               !.calls[id].underlying = outcome,
               !.calls[id].result = outcome]

\* return await execute(input, options): the underlying execute has settled
settle(st, id, outcome) ==
    [st EXCEPT !.calls[id].pc = IF outcome.status = "threw" THEN "threw" ELSE "done",
               !.calls[id].underlying = outcome,
               !.calls[id].result = outcome]

-----------------------------------------------------------------------------
(* middleware.ts: createMiddleware, createPipe *)

MaxPipes == 2

\* The transforms of the tests: each wraps execute and changes its result
Transforms == {"add1", "multiply2", "add10"}

\* A tool: what its innermost execute returns and the wrappers put around it, the
\* innermost first
BaseTools == {[returns |-> 5, layers |-> <<>>], [returns |-> 0, layers |-> <<>>]}

\* options.transform(tool) of the middleware named t
transform(t, tool) == [tool EXCEPT !.layers = Append(@, t)]

RECURSIVE executeLayers(_, _)
\* The result of the tool's execute: each wrapper changes the result of the one inside
executeLayers(layers, result) ==
    IF layers = <<>> THEN result
    ELSE executeLayers(Tail(layers),
            CASE Head(layers) = "add1" -> result + 1
              [] Head(layers) = "multiply2" -> result * 2
              [] Head(layers) = "add10" -> result + 10)

toolExecute(tool) == executeLayers(tool.layers, tool.returns)

\* A middleware is the closure createMiddleware or createPipe returned: of kind
\* "middleware" with its transform, or of kind "pipe" with parts <<current, next>>
createMiddleware(t) == [kind |-> "middleware", transform |-> t, parts |-> <<>>]

createPipe(current, next) == [kind |-> "pipe", transform |-> "none", parts |-> <<current, next>>]

\* m.pipe(next)
pipe(m, next) == createPipe(m, next)

RECURSIVE applyToReversed(_, _)
\* The next middleware applied before the current one.
applyToReversed(m, tool) ==
    IF m.kind = "middleware"
    THEN transform(m.transform, tool)
    ELSE applyToReversed(m.parts[1], applyToReversed(m.parts[2], tool))

RECURSIVE applyTo(_, _)
\* m.applyTo(tool): options.transform(tool), or next.applyTo(currentApplyTo(tool))
applyTo(m, tool) ==
    IF m.kind = "middleware"
    THEN transform(m.transform, tool)
    ELSE applyTo(m.parts[2], applyTo(m.parts[1], tool))

RECURSIVE Flatten(_)
\* The transforms of a middleware in the order they were piped
Flatten(m) ==
    IF m.kind = "middleware" THEN <<m.transform>>
    ELSE Flatten(m.parts[1]) \o Flatten(m.parts[2])

\* What can be passed to pipe: a middleware, or two of them piped
PipeArguments ==
    {createMiddleware(t) : t \in Transforms}
        \cup {pipe(createMiddleware(t), createMiddleware(u)) : t, u \in Transforms}

NoMiddleware ==
    [kind |-> "none", built |-> createMiddleware("none"), pipes |-> 0,
     names |-> <<>>, tool |-> [returns |-> 0, layers |-> <<>>]]

-----------------------------------------------------------------------------
(* tool2agent.ts: tool2agent, errorToToolCallFailure *)

MaxToolCalls == 2

\* A text is a list of pieces; + is concatenation
errorMessage == <<"Exception occured during tool call execution: ">>

\* A thrown value, by what errorToToolCallFailure looks at: whether it is an
\* Error, its stack, name and message (<<>> when falsy), its toString(), what
\* JSON.stringify makes of it ("throws", "undefined" or "text" with the text in
\* jsonString) and String() of it
Thrown(id, isError, stack, name, message, toString, json, jsonString, string) ==
    [id |-> id, isError |-> isError, stack |-> stack, name |-> name, message |-> message,
     toString |-> toString, json |-> json, jsonString |-> jsonString, string |-> string]

NothingThrown == Thrown("none", FALSE, <<>>, <<>>, <<>>, <<>>, "undefined", <<>>, <<>>)

ThrownValues ==
    {Thrown("error with stack", TRUE, <<"Error: Test error", " at test.js:1:1">>, <<"Error">>,
            <<"Test error">>, <<"Error: Test error">>, "text", <<"{}">>, <<"Error: Test error">>),
     Thrown("error without stack", TRUE, <<>>, <<"CustomError">>, <<"Test error">>,
            <<"CustomError: Test error">>, "text", <<"{}">>, <<"CustomError: Test error">>),
     Thrown("error without message", TRUE, <<>>, <<"Error">>, <<>>, <<"Error">>,
            "text", <<"{}">>, <<"Error">>),
     Thrown("error without name", TRUE, <<>>, <<>>, <<"Test error">>, <<"Test error">>,
            "text", <<"{}">>, <<"Test error">>),
     Thrown("string", FALSE, <<>>, <<>>, <<>>, <<"oops">>, "text", <<"\"oops\"">>, <<"oops">>),
     Thrown("object", FALSE, <<>>, <<>>, <<>>, <<"[object Object]">>, "text",
            <<"{\"code\":1}">>, <<"[object Object]">>),
     Thrown("undefined", FALSE, <<>>, <<>>, <<>>, <<>>, "undefined", <<>>, <<"undefined">>),
     Thrown("circular object", FALSE, <<>>, <<>>, <<>>, <<"[object Object]">>, "throws",
            <<>>, <<"[object Object]">>)}

\* What a call of a tool made by tool2agent() comes to
ToolCallResult(status, ok, value, problems, thrown) ==
    [status |-> status, ok |-> ok, value |-> value, problems |-> problems, thrown |-> thrown]

\* What params.execute may do: return ok:true, return ok:false, throw a value
ParamsExecuteOutcomes ==
    {ToolCallResult("returned", TRUE, "Hello", <<>>, NothingThrown),
     ToolCallResult("returned", FALSE, "none", <<<<"not found">>>>, NothingThrown)}
        \cup {ToolCallResult("threw", FALSE, "none", <<>>, error) : error \in ThrownValues}

ToolCallFailure(text) == ToolCallResult("returned", FALSE, "none", <<errorMessage \o text>>, NothingThrown)

errorToToolCallFailure(error) ==
    IF error.isError
    THEN IF error.stack # <<>>
         THEN ToolCallFailure(error.stack)
         ELSE IF error.message # <<>> /\ error.name # <<>>
         THEN ToolCallFailure(error.name \o <<": ">> \o error.message)
         ELSE ToolCallFailure(error.toString)
    ELSE IF error.json = "text"
    THEN ToolCallFailure(error.jsonString)
    ELSE ToolCallFailure(error.string)

CatchExceptions == {"undefined", "true", "false"}

\* Exceptions caught only when catchExceptions is given as true.
executeFunctionExplicitOnly(catchExceptions, outcome) ==
    IF catchExceptions = "true" /\ outcome.status = "threw"
    THEN errorToToolCallFailure(outcome.thrown)
    ELSE outcome

\* executeFunction, from the moment params.execute has returned or thrown
executeFunction(catchExceptions, outcome) ==
    IF catchExceptions = "undefined" \/ catchExceptions = "true"
    THEN IF outcome.status = "threw"
         THEN errorToToolCallFailure(outcome.thrown)
         ELSE outcome
    ELSE outcome

\* No tool made yet.  calls lists, for each call, what params.execute did
\* (outcome) and what the tool's execute came to (result)
NoTool == [created |-> FALSE, catchExceptions |-> "undefined", executing |-> FALSE, calls |-> <<>>]

-----------------------------------------------------------------------------
(* index.ts: toposortFields with influencedBy *)

MaxInfluencedBy == 2

\* requires lists of the specifications sorted here: distinct names in name order
InfluenceRequires ==
    {r \in RequiresLists : \A i, j \in DOMAIN r : i < j => localeCompare(r[i], r[j]) < 0}

\* influencedBy lists: only their length is read
InfluencedByLists ==
    {[i \in 1..n |-> <<"a", "b", "c", "a", "b", "c">>[i]] : n \in 0..MaxInfluencedBy}

FieldSpec(key, requires, influencedBy) ==
    [key |-> key, requires |-> requires, influencedBy |-> influencedBy]

\* spec[k].influencedBy?.length ?? 0
InfluencedByCount(sp, k) ==
    Len(sp[CHOOSE i \in DOMAIN sp : sp[i].key = k].influencedBy)

\* Ties broken by key name alone.
sortReadyByName(sp, x, y) == localeCompare(x, y)

\* sortReady: fewer influencedBy first, then the key name
sortReadyInfluenced(sp, x, y) ==
    IF InfluencedByCount(sp, x) # InfluencedByCount(sp, y)
    THEN InfluencedByCount(sp, x) - InfluencedByCount(sp, y)
    ELSE localeCompare(x, y)

RECURSIVE InsertStableInfluenced(_, _, _)
InsertStableInfluenced(sp, sorted, x) ==
    IF sorted = <<>> THEN <<x>>
    ELSE IF sortReadyInfluenced(sp, Head(sorted), x) <= 0
         THEN <<Head(sorted)>> \o InsertStableInfluenced(sp, Tail(sorted), x)
         ELSE <<x>> \o sorted

RECURSIVE SortByInfluenced(_, _, _)
SortByInfluenced(sp, q, done) ==
    IF q = <<>> THEN done
    ELSE SortByInfluenced(sp, Tail(q), InsertStableInfluenced(sp, done, Head(q)))

\* ready.sort(sortReady)
SortInfluenced(sp, q) == SortByInfluenced(sp, q, <<>>)

RECURSIVE relaxInfluenced(_, _, _, _)
\* for (const dep of dependents.get(current)) { decrement; if 0: push and sort }
relaxInfluenced(sp, deps, ready, inDegree) ==
    IF deps = <<>> THEN [ready |-> ready, inDegree |-> inDegree]
    ELSE LET dep == Head(deps)
             nextDeg == inDegree[dep] - 1
             inDegree2 == [inDegree EXCEPT ![dep] = nextDeg]
         IN  IF nextDeg = 0
             THEN relaxInfluenced(sp, Tail(deps), SortInfluenced(sp, Append(ready, dep)),
                                  inDegree2)
             ELSE relaxInfluenced(sp, Tail(deps), ready, inDegree2)

RECURSIVE kahnInfluenced(_, _, _, _)
\* while (ready.length > 0) { const current = ready.shift()!; ... }
kahnInfluenced(sp, ready, order, inDegree) ==
    IF ready = <<>> THEN order
    ELSE LET current == Head(ready)
             r == relaxInfluenced(sp, DependentsOf(sp, current, 1), Tail(ready), inDegree)
         IN  kahnInfluenced(sp, r.ready, Append(order, current), r.inDegree)

\* The result is [threw, order]; threw is "none", "TypeError" (dependents.get(r)
\* is undefined for a requires entry r that is not a key) or "Error" ('Cycle
\* detected or missing nodes during toposort').
toposortFieldsInfluenced(sp) ==
    LET keys == [i \in DOMAIN sp |-> sp[i].key]
        keySet == {sp[i].key : i \in DOMAIN sp}
        inDegree == [k \in keySet |-> Len(sp[CHOOSE i \in DOMAIN sp : sp[i].key = k].requires)]
        ready == SortInfluenced(sp, SelectSeq(keys, LAMBDA k : inDegree[k] = 0))
        order == kahnInfluenced(sp, ready, <<>>, inDegree)
    IN  IF \E i \in DOMAIN sp : \E n \in DOMAIN sp[i].requires : sp[i].requires[n] \notin keySet
        THEN [threw |-> "TypeError", order |-> <<>>]
        ELSE IF Len(order) # Len(keys)
        THEN [threw |-> "Error", order |-> <<>>]
        ELSE [threw |-> "none", order |-> order]

NoInfluenceSpec == [spec |-> <<>>, called |-> FALSE, threw |-> "none", order |-> <<>>]


-----------------------------------------------------------------------------
(* State *)

VARIABLES
    spec,        \* the builder's state.spec
    phase,       \* "building" | "built" (build() returned a tool) | "failed" (build() threw)
    buildResult, \* what validateToolSpec did inside build()
    sortResult,  \* the last result of a direct toposortFields(spec) call
    call,        \* the call of validateToolInput on the built specification
    otherCall,   \* a second call on the same specification, running at the same time
    idem,        \* a tool wrapped by the idempotency middleware, and the calls of it
    t2a,         \* a tool made by tool2agent(), and the calls of it
    mw,          \* a middleware built with createMiddleware and pipe
    topo         \* a specification with influencedBy and its toposortFields result

vars == <<spec, phase, buildResult, sortResult, call, otherCall, idem, t2a, mw, topo>>

NoResult == [threw |-> FALSE, cycles |-> <<>>, message |-> <<>>]
NotSorted == [threw |-> FALSE, order |-> <<>>, called |-> FALSE]

Init ==
    /\ spec = <<>>
    /\ phase = "building"
    /\ buildResult = NoResult
    /\ sortResult = NotSorted
    /\ call = IdleCall
    /\ otherCall = IdleCall
    /\ idem = NoIdempotentTool
    /\ t2a = NoTool
    /\ mw = NoMiddleware
    /\ topo = NoInfluenceSpec

\* builder.field(key, cfg)
Field(key, requires) ==
    /\ phase = "building"
    /\ key \notin KeySet(spec)
    /\ spec' = Append(spec, [key |-> key, requires |-> requires])
    /\ UNCHANGED <<phase, buildResult, sortResult, call, otherCall, idem, t2a, mw, topo>>

\* builder.build(): buildToolLoose runs validateToolSpec first
Build ==
    /\ phase = "building"
    /\ buildResult' = validateToolSpec(spec)
    /\ phase' = IF buildResult'.threw THEN "failed" ELSE "built"
    /\ UNCHANGED <<spec, sortResult, call, otherCall, idem, t2a, mw, topo>>

\* toposortFields(spec) called on the specification as it stands
SortFields ==
    /\ phase # "building"
    /\ ~sortResult.called
    /\ sortResult' = [threw |-> toposortFields(spec).threw,
                      order |-> toposortFields(spec).order, called |-> TRUE]
    /\ UNCHANGED <<spec, phase, buildResult, call, otherCall, idem, t2a, mw, topo>>

\* The tool's execute calls validateToolInput(fullSpec, input)
Call(loose) ==
    /\ phase = "built"
    /\ call.pc = "idle"
    /\ call' = execute(validateToolInput(spec, loose))
    /\ UNCHANGED <<spec, phase, buildResult, sortResult, otherCall, idem, t2a, mw, topo>>

\* The validator in flight resolves
ValidatorReturns(validationResult) ==
    /\ call.pc = "awaiting"
    /\ call' = execute(resume(spec, call, validationResult))
    /\ UNCHANGED <<spec, phase, buildResult, sortResult, otherCall, idem, t2a, mw, topo>>

\* The validator in flight throws, or its promise rejects
ValidatorThrows(exception) ==
    /\ call.pc = "awaiting"
    /\ call' = execute(rethrow(call, exception))
    /\ UNCHANGED <<spec, phase, buildResult, sortResult, otherCall, idem, t2a, mw, topo>>

-----------------------------------------------------------------------------
(* Calls on a tool that build() has returned *)

\* The specifications build() accepts, their keys declared in name order
BuiltSpecs ==
    UNION {{s \in [1..n -> [key : Names, requires : RequiresLists]] :
                /\ \A i, j \in 1..n : i < j => localeCompare(s[i].key, s[j].key) < 0
                /\ ~validateToolSpec(s).threw} : n \in 1..Cardinality(Names)}

\* toolBuilder(...).field(...)...build() has returned the tool
InitBuilt ==
    /\ spec \in BuiltSpecs
    /\ phase = "built"
    /\ buildResult = validateToolSpec(spec)
    /\ sortResult = NotSorted
    /\ call = IdleCall
    /\ otherCall = IdleCall
    /\ idem = NoIdempotentTool
    /\ t2a = NoTool
    /\ mw = NoMiddleware
    /\ topo = NoInfluenceSpec

-----------------------------------------------------------------------------
(* Calls of a tool wrapped by the idempotency middleware *)

Rest == <<spec, phase, buildResult, sortResult, call, otherCall>>

InitIdempotency ==
    /\ spec = <<>>
    /\ phase = "building"
    /\ buildResult = NoResult
    /\ sortResult = NotSorted
    /\ call = IdleCall
    /\ otherCall = IdleCall
    /\ idem \in {applyIdempotency(options) : options \in IdempotencyOptions}
    /\ t2a = NoTool
    /\ mw = NoMiddleware
    /\ topo = NoInfluenceSpec

InFlight == {id \in DOMAIN idem.calls : idem.calls[id].pc \notin {"done", "threw"}}

\* The wrapped execute is called while other calls may be in flight
IdempotentCallStarts(input) ==
    /\ idem.applied
    /\ Len(idem.calls) < MaxCalls
    /\ idem' = startIdempotent(idem, input)
    /\ UNCHANGED <<Rest, t2a, mw, topo>>

\* The wrapped execute is called when every earlier call has ended
IdempotentCallStartsAlone(input) ==
    /\ InFlight = {}
    /\ IdempotentCallStarts(input)

\* await set.has(input) resumes
HasResolves(id) ==
    /\ idem.calls[id].pc = "awaitHas"
    /\ idem' = afterHas(idem, id)
    /\ UNCHANGED <<Rest, t2a, mw, topo>>

\* await set.add(input) resumes
AddResolves(id) ==
    /\ idem.calls[id].pc = "awaitAdd"
    /\ idem' = afterAdd(idem, id)
    /\ UNCHANGED <<Rest, t2a, mw, topo>>

\* The underlying execute returns or throws
UnderlyingExecuteSettles(id, outcome) ==
    /\ idem.calls[id].pc = "executing"
    /\ idem' = settle(idem, id, outcome)
    /\ UNCHANGED <<Rest, t2a, mw, topo>>

-----------------------------------------------------------------------------
(* Middlewares built, piped and applied *)

\* createMiddleware({ transform })
CreateMiddleware(t) ==
    /\ mw.kind = "none"
    /\ mw' = [mw EXCEPT !.kind = "built",
                         !.built = createMiddleware(t),
                         !.names = <<t>>]
    /\ UNCHANGED <<Rest, idem, t2a, topo>>

\* The middleware so far is piped with next
Pipe(next) ==
    /\ mw.kind = "built"
    /\ mw.pipes < MaxPipes
    /\ mw' = [mw EXCEPT !.built = pipe(@, next),
                         !.pipes = @ + 1,
                         !.names = @ \o Flatten(next)]
    /\ UNCHANGED <<Rest, idem, t2a, topo>>

\* The middleware is applied to a tool
ApplyTo(tool) ==
    /\ mw.kind = "built"
    /\ mw' = [mw EXCEPT !.kind = "applied", !.tool = applyTo(mw.built, tool)]
    /\ UNCHANGED <<Rest, idem, t2a, topo>>

-----------------------------------------------------------------------------
(* Calls of a tool made by tool2agent() *)

\* tool2agent({ ..., catchExceptions })
Tool2agent(catchExceptions) ==
    /\ ~t2a.created
    /\ t2a' = [t2a EXCEPT !.created = TRUE, !.catchExceptions = catchExceptions]
    /\ UNCHANGED <<Rest, idem, mw, topo>>

\* tool.execute(input, options): params.execute is awaited
ToolExecuteStarts ==
    /\ t2a.created
    /\ ~t2a.executing
    /\ Len(t2a.calls) < MaxToolCalls
    /\ t2a' = [t2a EXCEPT !.executing = TRUE]
    /\ UNCHANGED <<Rest, idem, mw, topo>>

\* params.execute returns or throws
ParamsExecuteSettles(outcome) ==
    /\ t2a.executing
    /\ t2a' = [t2a EXCEPT
                !.executing = FALSE,
                !.calls = Append(@, [outcome |-> outcome,
                                     result |-> executeFunction(t2a.catchExceptions, outcome)])]
    /\ UNCHANGED <<Rest, idem, mw, topo>>

-----------------------------------------------------------------------------
(* A specification with influencedBy, sorted *)

\* A field is written into the specification object
InfluencedField(key, requires, influencedBy) ==
    /\ ~topo.called
    /\ \A i \in DOMAIN topo.spec : topo.spec[i].key # key
    /\ topo' = [topo EXCEPT !.spec = Append(@, FieldSpec(key, requires, influencedBy))]
    /\ UNCHANGED <<Rest, idem, t2a, mw>>

\* toposortFields(spec)
ToposortInfluenced ==
    /\ ~topo.called
    /\ topo' = [topo EXCEPT !.called = TRUE,
                             !.threw = toposortFieldsInfluenced(topo.spec).threw,
                             !.order = toposortFieldsInfluenced(topo.spec).order]
    /\ UNCHANGED <<Rest, idem, t2a, mw>>

-----------------------------------------------------------------------------
(* Two calls of validateToolInput on one specification, interleaved at the awaits *)

Key(key, requires) == [key |-> key, requires |-> requires]

\* The specifications the two calls run on
ConcurrentSpecs ==
    {<<Key("a", <<>>), Key("b", <<>>)>>,
     <<Key("a", <<>>), Key("b", <<"a">>)>>,
     <<Key("b", <<"c">>), Key("c", <<>>), Key("a", <<"c">>)>>}

\* A validator whose result depends only on its arguments: a missing value is
\* invalid, and a value is normalized to "John" unless the context already
\* holds a "John".
validate(value, context) ==
    IF value = Undefined
    THEN Outcome(FALSE, Undefined, <<"required">>, <<>>)
    ELSE IF \E k \in AllNames : context[k] = "John"
    THEN Outcome(TRUE, Undefined, <<>>, <<>>)
    ELSE Outcome(TRUE, "John", <<>>, <<>>)

\* The working value set as one object that both calls read and write.
continueShared(c) ==
    LET entry == c.trace[Len(c.trace)]
        shared == [k \in AllNames |->
                    IF call.validFields[k] # Undefined
                    THEN call.validFields[k]
                    ELSE otherCall.validFields[k]]
    IN  execute(resume(spec, [c EXCEPT !.validFields = shared],
                       validate(entry.value, entry.context)))

\* Call c goes on from its await once its validator has resolved; all it reads
\* and writes are its own validFields and validationResults
continue(c) ==
    LET entry == c.trace[Len(c.trace)]
    IN  execute(resume(spec, c, validate(entry.value, entry.context)))

InitConcurrent ==
    /\ spec \in ConcurrentSpecs
    /\ phase = "built"
    /\ buildResult = validateToolSpec(spec)
    /\ sortResult = NotSorted
    /\ call = IdleCall
    /\ otherCall = IdleCall
    /\ idem = NoIdempotentTool
    /\ t2a = NoTool
    /\ mw = NoMiddleware
    /\ topo = NoInfluenceSpec

CallStarts(loose) ==
    /\ call.pc = "idle"
    /\ call' = execute(validateToolInput(spec, loose))
    /\ UNCHANGED <<spec, phase, buildResult, sortResult, otherCall, idem, t2a, mw, topo>>

OtherStarts(loose) ==
    /\ otherCall.pc = "idle"
    /\ otherCall' = execute(validateToolInput(spec, loose))
    /\ UNCHANGED <<spec, phase, buildResult, sortResult, call, idem, t2a, mw, topo>>

CallContinues ==
    /\ call.pc = "awaiting"
    /\ call' = continue(call)
    /\ UNCHANGED <<spec, phase, buildResult, sortResult, otherCall, idem, t2a, mw, topo>>

OtherContinues ==
    /\ otherCall.pc = "awaiting"
    /\ otherCall' = continue(otherCall)
    /\ UNCHANGED <<spec, phase, buildResult, sortResult, call, idem, t2a, mw, topo>>

RECURSIVE Finish(_)
\* Call c run on to its end with no other call around
Finish(c) ==
    IF c.pc = "awaiting"
    THEN LET entry == c.trace[Len(c.trace)]
         IN  Finish(resume(spec, c, validate(entry.value, entry.context)))
    ELSE c

\* validateToolInput(spec, loose) running alone
Alone(loose) == Finish(validateToolInput(spec, loose))

-----------------------------------------------------------------------------
(* The requires graph, by its edges *)

Successors(S) == UNION {Range(RequiresOf(spec, x)) : x \in S}

RECURSIVE Closure(_)
Closure(S) ==
    LET more == S \cup Successors(S)
    IN  IF more = S THEN S ELSE Closure(more)

\* x reaches itself along one or more requires edges
OnCycle(x) == x \in Closure(Successors({x}))

HasCycle == \E x \in KeySet(spec) : OnCycle(x)

\* Every requires entry names a key of the specification
Closed == \A x \in KeySet(spec) : Range(RequiresOf(spec, x)) \subseteq KeySet(spec)

\* Each element lists the next one in its requires, the last one lists the first
IsCycle(c) ==
    /\ c # <<>>
    /\ \A i \in DOMAIN c : c[(i % Len(c)) + 1] \in Range(RequiresOf(spec, c[i]))

Position(order, k) == CHOOSE i \in DOMAIN order : order[i] = k

\* The specification with its keys inserted in another order
Reorderings ==
    LET n == Len(spec)
    IN  {[i \in 1..n |-> spec[p[i]]] :
            p \in {f \in [1..n -> 1..n] : \A i, j \in 1..n : f[i] = f[j] => i = j}}

-----------------------------------------------------------------------------
(* Claims about the graph utilities and build() *)

\* C3: the only fatal error is the cycle error of build(): for a specification
\* that passed validateToolSpec, toposortFields does not throw and a call of
\* validateToolInput raises no error of its own.
C3_NoFatalErrorAfterBuild ==
    phase = "built" =>
        /\ ~toposortFields(spec).threw
        /\ call.pc = "threw" => call.error \in ValidatorExceptions

\* C5: validateToolSpec throws exactly for the specifications whose requires
\* graph has a cycle, build() then fails and no tool exists to be called, and
\* the message names every field of at least one detected cycle.
C5_CyclicSpecFailsBuild ==
    phase # "building" =>
        /\ buildResult.threw <=> phase = "failed"
        /\ phase = "failed" <=> HasCycle
        /\ phase = "failed" => call.pc = "idle"
        /\ buildResult.threw =>
            \E i \in DOMAIN buildResult.cycles :
                /\ IsCycle(buildResult.cycles[i])
                /\ Range(buildResult.cycles[i]) \subseteq Range(buildResult.message)

\* build() failed on a specification with two disjoint cycles, one of length 2
C5_Witness ==
    /\ phase = "failed"
    /\ \E i, j \in DOMAIN buildResult.cycles :
        /\ Range(buildResult.cycles[i]) \cap Range(buildResult.cycles[j]) = {}
        /\ Len(buildResult.cycles[j]) = 2

\* C6: detectRequiresCycles returns the empty list exactly for an acyclic graph,
\* every sequence it returns is a cycle of the graph, and every self-edge is
\* returned as a one-element sequence.
C6_DetectedCyclesAreCycles ==
    phase # "building" =>
        /\ buildResult.cycles = <<>> <=> ~HasCycle
        /\ \A i \in DOMAIN buildResult.cycles : IsCycle(buildResult.cycles[i])
        /\ \A k \in KeySet(spec) :
            k \in Range(RequiresOf(spec, k)) =>
                \E i \in DOMAIN buildResult.cycles : buildResult.cycles[i] = <<k>>

\* A self-edge and a longer cycle were both returned
C6_Witness ==
    /\ phase = "failed"
    /\ \E i, j \in DOMAIN buildResult.cycles :
        Len(buildResult.cycles[i]) = 1 /\ Len(buildResult.cycles[j]) >= 2

ReadyAfter(emitted) ==
    {k \in KeySet(spec) \ emitted : Range(RequiresOf(spec, k)) \subseteq emitted}

\* C8: toposortFields emits at every step the smallest name among the fields
\* whose requires were all emitted, and gives the same result whatever the
\* insertion order of the keys.
C8_ToposortIsDeterministic ==
    sortResult.called =>
        /\ \A i \in DOMAIN sortResult.order :
            LET ready == ReadyAfter({sortResult.order[j] : j \in 1..(i - 1)})
            IN  /\ sortResult.order[i] \in ready
                /\ \A k \in ready : localeCompare(sortResult.order[i], k) <= 0
        /\ \A other \in Reorderings :
            /\ toposortFields(other).threw = sortResult.threw
            /\ toposortFields(other).order = sortResult.order

\* Three fields inserted in an order that is not the order returned
C8_Witness ==
    /\ sortResult.called /\ ~sortResult.threw
    /\ Len(sortResult.order) = 3
    /\ Keys(spec) # sortResult.order

-----------------------------------------------------------------------------
(* Claims about one call of validateToolInput *)

\* The entries of requires that hold no value in the working value set
Unmet(requires, validFields) == SelectSeq(requires, LAMBDA dep : validFields[dep] = Undefined)

\* The trace entry of a visited field
EntryOf(k) == call.trace[CHOOSE i \in DOMAIN call.trace : call.trace[i].field = k]

Visited == {call.trace[i].field : i \in DOMAIN call.trace}

\* C1: a returned result is accepted if and only if no outcome recorded in the
\* call has valid:false, and rejected otherwise.
C1_AcceptedIffNoInvalidOutcome ==
    call.pc = "done" =>
        /\ call.result.status \in {"accepted", "rejected"}
        /\ call.result.status = "accepted" <=>
            \A k \in DOMAIN call.validationResults : call.validationResults[k].valid # FALSE

\* A rejected result in which some field passed
C1_Witness ==
    /\ call.pc = "done"
    /\ call.result.status = "rejected"
    /\ \E k \in DOMAIN call.validationResults : call.validationResults[k].valid

\* C2: a field visited while some entry of its requires is not in the working
\* value set is skipped, its validator is not invoked, and its outcome is
\* valid:false with requiresValidParameters the unmet entries in requires order.
C2_UnmetRequiresSkipValidator ==
    \A i \in DOMAIN call.trace :
        LET e == call.trace[i]
            unmet == Unmet(RequiresOf(spec, e.field), e.validFields)
        IN  unmet # <<>> =>
                /\ e.kind = "skipped"
                /\ \A j \in DOMAIN call.trace :
                    call.trace[j].field = e.field => call.trace[j].kind # "invoked"
                /\ e.field \in DOMAIN call.validationResults
                /\ call.validationResults[e.field] = Outcome(FALSE, Undefined, <<>>, unmet)

\* A field requiring two fields was skipped with only the second of them unmet
C2_Witness ==
    \E i \in DOMAIN call.trace :
        LET e == call.trace[i]
            requires == RequiresOf(spec, e.field)
        IN  /\ e.kind = "skipped"
            /\ Len(requires) = 2
            /\ requires[1] # requires[2]
            /\ call.validationResults[e.field].requiresValidParameters = <<requires[2]>>

\* C4: in a rejected result every field named in some requiresValidParameters
\* has itself an outcome with valid:false.
C4_UnmetRequirementIsInvalid ==
    (call.pc = "done" /\ call.result.status = "rejected") =>
        \A k \in DOMAIN call.result.validationResults :
            \A f \in Range(call.result.validationResults[k].requiresValidParameters) :
                /\ f \in DOMAIN call.result.validationResults
                /\ call.result.validationResults[f].valid = FALSE

\* C9: once a validator returned valid:true with a normalizedValue, the context
\* of every validator invoked later holds that field with the normalized value.
C9_LaterContextHoldsNormalizedValue ==
    \A i, j \in DOMAIN call.trace :
        LET first == call.trace[i]
            later == call.trace[j]
        IN  (/\ i < j
             /\ first.kind = "invoked"
             /\ later.kind = "invoked"
             /\ first.returned.valid
             /\ first.returned.normalizedValue # Undefined) =>
                later.context[first.field] = first.returned.normalizedValue

\* "john" was normalized to "John" and a later validator was invoked
C9_Witness ==
    \E i, j \in DOMAIN call.trace :
        /\ i < j
        /\ call.trace[i].kind = "invoked"
        /\ call.trace[j].kind = "invoked"
        /\ call.trace[i].value = "john"
        /\ call.trace[i].returned.valid
        /\ call.trace[i].returned.normalizedValue = "John"

\* C10: an accepted value holds every static field of the input unchanged and,
\* for every dynamic field, the returned normalizedValue or else the raw input
\* value; without any normalization it is the input.
C10_AcceptedValue ==
    (call.pc = "done" /\ call.result.status = "accepted") =>
        /\ \A k \in AllNames \ KeySet(spec) : call.result.value[k] = call.loose[k]
        /\ \A k \in KeySet(spec) :
            /\ k \in Visited
            /\ call.result.value[k] =
                IF EntryOf(k).returned.normalizedValue # Undefined
                THEN EntryOf(k).returned.normalizedValue
                ELSE call.loose[k]
        /\ (\A i \in DOMAIN call.trace : call.trace[i].returned.normalizedValue = Undefined)
            => call.result.value = call.loose

\* Accepted with a static field given, a field normalized and a field taken raw
C10_Witness ==
    /\ call.pc = "done"
    /\ call.result.status = "accepted"
    /\ call.loose["s"] # Undefined
    /\ \E i, j \in DOMAIN call.trace :
        /\ call.trace[i].value = "john"
        /\ call.trace[i].returned.normalizedValue = "John"
        /\ call.trace[j].value = "john"
        /\ call.trace[j].returned.normalizedValue = Undefined

\* The trace entries of the validators that were invoked and have resolved
Resolved ==
    {i \in DOMAIN call.trace :
        /\ call.trace[i].kind = "invoked"
        /\ call.trace[i].field \in DOMAIN call.validationResults}

\* C11: when a validator returns valid with a normalizedValue equal to the raw
\* input value, the recorded outcome has no normalizedValue, is valid, and the
\* original value is in the working value set.
C11_NoOpNormalizationIsStripped ==
    \A i \in Resolved :
        LET e == call.trace[i]
        IN  (/\ e.returned.valid
             /\ e.value # Undefined
             /\ e.returned.normalizedValue = e.value) =>
                /\ call.validationResults[e.field].normalizedValue = Undefined
                /\ call.validationResults[e.field].valid
                /\ call.validFields[e.field] = e.value

\* "john" came back as normalizedValue "john" from a validator that resolved
C11_Witness ==
    \E i \in Resolved :
        /\ call.trace[i].returned.valid
        /\ call.trace[i].value = "john"
        /\ call.trace[i].returned.normalizedValue = "john"

\* C12 as stated: an invalid outcome that carries a normalizedValue keeps it in
\* the recorded outcome.
C12_InvalidOutcomeKeepsNormalizedValue ==
    \A i \in Resolved :
        LET e == call.trace[i]
        IN  (~e.returned.valid /\ e.returned.normalizedValue # Undefined) =>
                call.validationResults[e.field].normalizedValue = e.returned.normalizedValue

\* C12: a field whose outcome is valid:false is never in the working value set
\* nor in the context of a later validator, and the normalizedValue of its outcome
\* stays in the recorded outcome unless it equals the raw input value, in which
\* case it is removed.
C12_InvalidFieldIsNotFolded ==
    \A i \in Resolved :
        LET e == call.trace[i]
        IN  ~e.returned.valid =>
                /\ call.validFields[e.field] = Undefined
                /\ \A j \in DOMAIN call.trace :
                    j > i => /\ call.trace[j].validFields[e.field] = Undefined
                             /\ call.trace[j].context[e.field] = Undefined
                /\ ~call.validationResults[e.field].valid
                /\ call.validationResults[e.field].normalizedValue =
                    IF e.returned.normalizedValue = e.value
                    THEN Undefined
                    ELSE e.returned.normalizedValue

\* "john" was found invalid with normalizedValue "John" and a later validator ran
C12_Witness ==
    \E i \in Resolved :
        /\ ~call.trace[i].returned.valid
        /\ call.trace[i].value = "john"
        /\ call.trace[i].returned.normalizedValue = "John"
        /\ \E j \in DOMAIN call.trace : j > i /\ call.trace[j].kind = "invoked"

\* C13: the validationResults of a rejected result has an outcome for exactly
\* the dynamic fields of the specification, the outcome of a field that passed
\* being valid:true, and none for a static field.
C13_RejectedHasEveryDynamicField ==
    (call.pc = "done" /\ call.result.status = "rejected") =>
        /\ DOMAIN call.result.validationResults = KeySet(spec)
        /\ DOMAIN call.result.validationResults \cap StaticNames = {}
        /\ \A i \in Resolved :
            call.trace[i].returned.valid =>
                call.result.validationResults[call.trace[i].field].valid

\* Rejected, with a static field given, a field that passed and a field skipped
C13_Witness ==
    /\ call.pc = "done"
    /\ call.result.status = "rejected"
    /\ call.loose["s"] # Undefined
    /\ \E i, j \in DOMAIN call.trace :
        /\ call.trace[i].kind = "invoked"
        /\ call.trace[i].returned.valid
        /\ call.trace[j].kind = "skipped"

\* C14: every valid:false outcome of a returned result has a non-empty problems
\* list or a non-empty requiresValidParameters list.
C14_InvalidOutcomeHasDiagnostics ==
    call.pc = "done" =>
        \A k \in DOMAIN call.result.validationResults :
            LET outcome == call.result.validationResults[k]
            IN  ~outcome.valid =>
                    outcome.problems # <<>> \/ outcome.requiresValidParameters # <<>>

\* A rejected result with one outcome carrying problems and another carrying
\* requiresValidParameters
C14_Witness ==
    /\ call.pc = "done"
    /\ \E k, l \in DOMAIN call.result.validationResults :
        /\ ~call.result.validationResults[k].valid
        /\ call.result.validationResults[k].problems # <<>>
        /\ ~call.result.validationResults[l].valid
        /\ call.result.validationResults[l].requiresValidParameters # <<>>

\* C15: the fields are visited in the order of the topological sort, a validator
\* is invoked only when every validator invoked before it has resolved and its
\* value has been folded, and no validator is invoked twice.
C15_ValidatorsRunOneAtATimeInOrder ==
    /\ Len(call.trace) <= Len(call.sortedFields)
    /\ \A i \in DOMAIN call.trace : call.trace[i].field = call.sortedFields[i]
    /\ \A i, j \in DOMAIN call.trace :
        (i < j /\ call.trace[i].kind = "invoked") =>
            /\ call.trace[i].field # call.trace[j].field
            /\ call.trace[i].returned # NoOutcome
            /\ call.trace[i].returned.valid =>
                call.trace[j].validFields[call.trace[i].field] =
                    IF call.trace[i].returned.normalizedValue # Undefined
                    THEN call.trace[i].returned.normalizedValue
                    ELSE call.trace[i].value

\* Three validators were invoked one after the other, the last still in flight
C15_Witness ==
    /\ call.pc = "awaiting"
    /\ Len(call.trace) = 3
    /\ \A i \in DOMAIN call.trace : call.trace[i].kind = "invoked"
    /\ call.trace[1].returned.normalizedValue = "John"
    /\ call.trace[3].returned = NoOutcome

\* The call ended in an exception of a validator
ValidatorThrew == call.pc = "threw" /\ call.error \in ValidatorExceptions

\* C17: when a validator throws, the call fails with the exception thrown,
\* returns no result, and the throwing validator is the last one invoked.
C17_ValidatorExceptionPropagates ==
    /\ \A i \in DOMAIN call.trace :
        call.trace[i].threw # "none" =>
            /\ call.pc = "threw"
            /\ call.error = call.trace[i].threw
            /\ i = Len(call.trace)
    /\ call.pc = "threw" => call.result = IdleCall.result

\* The second of two validators threw after the first had resolved
C17_Witness ==
    /\ ValidatorThrew
    /\ Len(call.trace) = 2
    /\ call.trace[1].kind = "invoked"
    /\ call.trace[2].threw = call.error
    /\ Len(call.sortedFields) = 3

\* C18: when a validator throws during a call of the tool that build() returned,
\* execute does not throw and returns ok:false.
C18_ExecuteTranslatesValidatorException ==
    ValidatorThrew => call.tool.status = "returned" /\ ~call.tool.ok

\* C19: the context of an invoked validator is the working value set without
\* the field being validated: the working-set value of every field of requires
\* and of every other dynamic field in the working set, and every static field
\* of the input.
C19_ContextIsWorkingSetWithoutField ==
    \A i \in DOMAIN call.trace :
        LET e == call.trace[i]
            requires == RequiresOf(spec, e.field)
            dynamicSet == KeySet(spec)
        IN  e.kind = "invoked" =>
                /\ e.context[e.field] = Undefined
                /\ \A n \in DOMAIN requires :
                    /\ e.context[requires[n]] = e.validFields[requires[n]]
                    /\ e.context[requires[n]] # Undefined
                /\ \A k \in AllNames \ {e.field} :
                    e.context[k] = IF k \in dynamicSet THEN e.validFields[k] ELSE call.loose[k]

\* A validator saw a required field, another dynamic field and a static field
C19_Witness ==
    \E i \in DOMAIN call.trace :
        LET e == call.trace[i]
        IN  /\ e.kind = "invoked"
            /\ e.value # Undefined
            /\ e.context["s"] # Undefined
            /\ \E k \in Range(RequiresOf(spec, e.field)) : e.context[k] = "John"
            /\ \E k \in KeySet(spec) \ Range(RequiresOf(spec, e.field)) :
                e.context[k] # Undefined

\* The trace entries of field k
EntriesOf(k) == {i \in DOMAIN call.trace : call.trace[i].field = k}

C16_ConcurrentCallsAreIndependent ==
    \A c \in {call, otherCall} :
        c.pc # "idle" =>
            /\ Finish(c).result = Alone(c.loose).result
            /\ Finish(c).trace = Alone(c.loose).trace
            /\ c.pc = "done" =>
                /\ c.result = Alone(c.loose).result
                /\ c.validFields = Alone(c.loose).validFields
                /\ c.validationResults = Alone(c.loose).validationResults

\* Both calls are past their first validator and waiting for their second, on
\* different inputs, one of them with a field the other lacks
C16_Witness ==
    /\ call.pc = "awaiting"
    /\ otherCall.pc = "awaiting"
    /\ Len(call.trace) = 2
    /\ Len(otherCall.trace) = 2
    /\ call.trace[1].returned.normalizedValue = "John"
    /\ ~otherCall.trace[1].returned.valid
    /\ otherCall.trace[2].value = "john"

\* C21: params.execute is invoked only when every dynamic field's validator has
\* been invoked in the call and returned valid:true, and with the accepted
\* value; on a rejected validation the tool returns ok:false with the
\* validationResults and params.execute is not invoked.
C21_ExecuteOnlyAfterAcceptance ==
    /\ call.tool.status = "executing" =>
        /\ call.pc = "done"
        /\ call.result.status = "accepted"
        /\ call.tool.input = call.result.value
        /\ \A k \in KeySet(spec) :
            \E i \in DOMAIN call.trace :
                /\ call.trace[i].field = k
                /\ call.trace[i].kind = "invoked"
                /\ call.trace[i].returned.valid
    /\ (call.pc = "done" /\ call.result.status = "rejected") =>
        /\ call.tool.status = "returned"
        /\ ~call.tool.ok
        /\ call.tool.validationResults = call.result.validationResults
    /\ call.pc \in {"idle", "awaiting"} => call.tool.status = "none"

\* params.execute was invoked with a normalized field, a raw field and a static field
C21_Witness ==
    /\ call.tool.status = "executing"
    /\ call.tool.input["s"] = "john"
    /\ \E k, l \in KeySet(spec) : call.tool.input[k] = "John" /\ call.tool.input[l] = "john"

\* C27: a visited field that transitively requires a field whose outcome is
\* valid:false has its validator not invoked and gets an outcome valid:false
\* with requiresValidParameters, and a call that returns is then rejected.
C27_InvalidityPropagatesAlongRequires ==
    /\ \A j \in DOMAIN call.trace :
        LET e == call.trace[j]
        IN  (/\ e.field \in DOMAIN call.validationResults
             /\ \E k \in Closure(Successors({e.field})) :
                /\ k \in DOMAIN call.validationResults
                /\ ~call.validationResults[k].valid) =>
                /\ e.kind = "skipped"
                /\ ~call.validationResults[e.field].valid
                /\ call.validationResults[e.field].requiresValidParameters # <<>>
    /\ (/\ call.pc = "done"
        /\ \E k \in DOMAIN call.validationResults : ~call.validationResults[k].valid) =>
            call.result.status = "rejected"

\* A chain of three fields: the first was found invalid by its validator, the
\* second and the third were skipped
C27_Witness ==
    /\ call.pc = "done"
    /\ Len(call.trace) = 3
    /\ call.trace[1].kind = "invoked"
    /\ call.trace[1].returned.problems # <<>>
    /\ call.trace[2].kind = "skipped"
    /\ call.trace[3].kind = "skipped"
    /\ RequiresOf(spec, call.trace[2].field) = <<call.trace[1].field>>
    /\ RequiresOf(spec, call.trace[3].field) = <<call.trace[2].field>>

\* C28: every value of a dynamic field in the context of a validator is the
\* value folded for that field after its validator returned valid:true earlier
\* in the same call; the raw value of a field not yet visited, skipped or
\* invalid is never there.
C28_ContextHoldsOnlyValidatedValues ==
    \A i \in DOMAIN call.trace :
        LET e == call.trace[i]
        IN  e.kind = "invoked" =>
                \A k \in KeySet(spec) :
                    e.context[k] # Undefined =>
                        \E j \in 1..(i - 1) :
                            LET f == call.trace[j]
                            IN  /\ f.field = k
                                /\ f.kind = "invoked"
                                /\ f.returned.valid
                                /\ e.context[k] =
                                    IF f.returned.normalizedValue # Undefined
                                    THEN f.returned.normalizedValue
                                    ELSE f.value

\* A validator ran after an invalid field and before a later field, both given
\* in the input, and saw neither
C28_Witness ==
    /\ Len(call.trace) = 3
    /\ call.trace[1].kind = "invoked"
    /\ call.trace[1].value = "john"
    /\ ~call.trace[1].returned.valid
    /\ call.trace[2].kind = "invoked"
    /\ call.trace[2].returned.valid
    /\ call.trace[3].kind = "invoked"
    /\ call.trace[3].value = "john"
    /\ call.trace[3].context[call.trace[2].field] # Undefined

\* C29: the working value set holds exactly the static input fields when the
\* first field is visited, and a key it holds keeps its value at every later
\* visit and to the end of the call.
C29_WorkingSetOnlyGrows ==
    /\ call.trace # <<>> =>
        \A k \in AllNames :
            call.trace[1].validFields[k] =
                IF k \in KeySet(spec) THEN Undefined ELSE call.loose[k]
    /\ \A i \in DOMAIN call.trace :
        \A k \in AllNames :
            call.trace[i].validFields[k] # Undefined =>
                /\ call.validFields[k] = call.trace[i].validFields[k]
                /\ \A j \in DOMAIN call.trace :
                    j > i => call.trace[j].validFields[k] = call.trace[i].validFields[k]

\* The working set grew at each of two folds on top of a static field
C29_Witness ==
    /\ call.pc = "done"
    /\ Len(call.trace) = 3
    /\ call.trace[1].validFields["s"] = "john"
    /\ \E k, l \in KeySet(spec) :
        /\ k # l
        /\ call.trace[2].validFields[k] = "John"
        /\ call.trace[2].validFields[l] = Undefined
        /\ call.trace[3].validFields[k] = "John"
        /\ call.trace[3].validFields[l] = "john"

\* The answer of the middleware to a duplicate call
DuplicateResult ==
    CallResult("returned", FALSE, "none",
               idem.options.formatProblems, idem.options.formatInstructions)

\* No earlier call had an input deep-equal to that of call id
FirstWithInput(id) ==
    \A j \in 1..(id - 1) : ~DeepEqual(idem.calls[j].input, idem.calls[id].input)

\* C22: among the calls with equal input, whatever their interleaving, the
\* underlying execute is invoked for at most one, and every other one returns
\* ok:false.
C22_ExecuteAtMostOncePerInput ==
    \A i, j \in DOMAIN idem.calls :
        (/\ i # j
         /\ DeepEqual(idem.calls[i].input, idem.calls[j].input)
         /\ idem.calls[i].executed) =>
            /\ ~idem.calls[j].executed
            /\ idem.calls[j].pc = "done" => ~idem.calls[j].result.ok

\* C23: with calls made one after the other, the first call with an input
\* invokes the underlying execute and ends as it does; every later call with a
\* deep-equal input returns ok:false with the configured problems and
\* instructions and does not invoke the underlying execute; a call with another
\* input is handled as a first call.
C23_SequentialDuplicatesAreBlocked ==
    \A id \in DOMAIN idem.calls :
        LET c == idem.calls[id]
        IN  IF FirstWithInput(id)
            THEN /\ ~c.seen
                 /\ c.pc \in {"done", "threw"} =>
                    /\ c.executed
                    /\ c.underlying \in ExecuteOutcomes
                    /\ c.result = c.underlying
            ELSE /\ c.seen
                 /\ ~c.executed
                 /\ c.pc \in {"awaitHas", "done"}
                 /\ c.pc = "done" => c.result = DuplicateResult

\* A first call executed, its duplicate with the keys in another order was
\* blocked with the configured texts, and a call with another input executed
C23_Witness ==
    /\ Len(idem.calls) = 3
    /\ idem.options.formatProblems = <<"Duplicate call detected">>
    /\ idem.calls[1].result.ok
    /\ idem.calls[1].input # idem.calls[2].input
    /\ idem.calls[2].result = DuplicateResult
    /\ idem.calls[2].pc = "done"
    /\ idem.calls[3].result.ok

\* C30: the input is in the set when the underlying execute is invoked, and
\* after a call whose underlying execute threw or returned ok:false a later
\* call with a deep-equal input is answered as a duplicate, without the
\* underlying execute.
C30_FailedInputStaysRecorded ==
    /\ \A i \in DOMAIN idem.calls :
        idem.calls[i].executed => hash(idem.calls[i].input) \in idem.hashes
    /\ \A i, j \in DOMAIN idem.calls :
        (/\ i < j
         /\ DeepEqual(idem.calls[i].input, idem.calls[j].input)
         /\ idem.calls[i].executed
         /\ idem.calls[i].pc \in {"done", "threw"}
         /\ ~idem.calls[i].underlying.ok) =>
            /\ ~idem.calls[j].executed
            /\ idem.calls[j].pc \in {"awaitHas", "done"}
            /\ idem.calls[j].pc = "done" => idem.calls[j].result = DuplicateResult

\* The underlying execute threw in the first call and returned ok:false in the
\* second, on another input; the third call repeated the first and was blocked
C30_Witness ==
    /\ Len(idem.calls) = 3
    /\ idem.calls[1].pc = "threw"
    /\ idem.calls[2].pc = "done"
    /\ idem.calls[2].executed
    /\ ~idem.calls[2].underlying.ok
    /\ DeepEqual(idem.calls[1].input, idem.calls[3].input)
    /\ idem.calls[3].pc = "done"
    /\ idem.calls[3].result = DuplicateResult

RECURSIVE ApplyEach(_, _)
\* mn.applyTo(... m2.applyTo(m1.applyTo(tool))) for the transforms m1..mn
ApplyEach(names, tool) ==
    IF names = <<>> THEN tool
    ELSE ApplyEach(Tail(names), applyTo(createMiddleware(Head(names)), tool))

\* C24: a piped middleware applied to a tool gives the tool that applying its
\* parts one by one, left to right, gives, each transform put on once; and
\* piping is associative: m.pipe(b).pipe(c) and m.pipe(b.pipe(c)) give the same
\* tool from the same tool.
C24_PipeAppliesLeftToRight ==
    /\ mw.kind = "applied" =>
        /\ \E tool \in BaseTools : mw.tool = ApplyEach(mw.names, tool)
        /\ mw.tool.layers = mw.names
        /\ mw.names = Flatten(mw.built)
    /\ mw.kind = "built" =>
        \A b \in PipeArguments, t \in Transforms, tool \in BaseTools :
            LET c == createMiddleware(t)
                left == applyTo(pipe(pipe(mw.built, b), c), tool)
                right == applyTo(pipe(mw.built, pipe(b, c)), tool)
            IN  /\ left = right
                /\ toolExecute(left) = toolExecute(right)

\* add1.pipe(multiply2).pipe(add10) applied to the tool returning 5 returns 22
C24_Witness ==
    /\ mw.kind = "applied"
    /\ mw.pipes = 2
    /\ mw.names = <<"add1", "multiply2", "add10">>
    /\ mw.tool.returns = 5
    /\ toolExecute(mw.tool) = 22

InfluencedSpecOf(k) == topo.spec[CHOOSE i \in DOMAIN topo.spec : topo.spec[i].key = k]

\* The fields not among emitted whose requires are all among emitted
ReadyInfluenced(emitted) ==
    {topo.spec[i].key : i \in {n \in DOMAIN topo.spec :
        /\ topo.spec[n].key \notin emitted
        /\ Range(topo.spec[n].requires) \subseteq emitted}}

\* C26: in an order returned by the toposortFields that reads influencedBy,
\* every field comes after the fields of its requires, and the field at each
\* position is, among the fields ready at that moment, one with the fewest
\* influencedBy entries and, among those, the first by name.
C26_InfluencedByBreaksTies ==
    (topo.called /\ topo.threw = "none") =>
        /\ Len(topo.order) = Len(topo.spec)
        /\ \A i \in DOMAIN topo.order :
            LET current == topo.order[i]
                ready == ReadyInfluenced({topo.order[j] : j \in 1..(i - 1)})
            IN  /\ current \in ready
                /\ \A k \in ready :
                    \/ Len(InfluencedSpecOf(current).influencedBy)
                         < Len(InfluencedSpecOf(k).influencedBy)
                    \/ /\ Len(InfluencedSpecOf(current).influencedBy)
                            = Len(InfluencedSpecOf(k).influencedBy)
                       /\ localeCompare(current, k) <= 0

\* { a: {requires: []}, b: {requires: [a], influencedBy: [c]}, c: {requires: [a]} }
\* gives a, c, b
C26_Witness ==
    /\ topo.called
    /\ topo.threw = "none"
    /\ topo.order = <<"a", "c", "b">>
    /\ InfluencedSpecOf("b").requires = <<"a">>
    /\ InfluencedSpecOf("c").requires = <<"a">>
    /\ Len(InfluencedSpecOf("b").influencedBy) = 1
    /\ InfluencedSpecOf("c").influencedBy = <<>>

NextGraph ==
    \/ \E key \in Names, requires \in RequiresLists : Field(key, requires)
    \/ Build
    \/ SortFields

SpecGraph == Init /\ [][NextGraph]_vars

Next ==
    \/ \E key \in Names, requires \in RequiresLists : Field(key, requires)
    \/ Build
    \/ \E loose \in Inputs : Call(loose)
    \/ \E validationResult \in ValidatorOutcomes : ValidatorReturns(validationResult)
    \/ \E exception \in ValidatorExceptions : ValidatorThrows(exception)

Spec == Init /\ [][Next]_vars

NextBuilt ==
    \/ \E loose \in Inputs : Call(loose)
    \/ \E validationResult \in ValidatorOutcomes : ValidatorReturns(validationResult)
    \/ \E exception \in ValidatorExceptions : ValidatorThrows(exception)

SpecBuilt == InitBuilt /\ [][NextBuilt]_vars

NextIdempotency ==
    \/ \E input \in IdempotencyInputs : IdempotentCallStarts(input)
    \/ \E id \in DOMAIN idem.calls : HasResolves(id)
    \/ \E id \in DOMAIN idem.calls : AddResolves(id)
    \/ \E id \in DOMAIN idem.calls, outcome \in ExecuteOutcomes :
        UnderlyingExecuteSettles(id, outcome)

SpecIdempotency == InitIdempotency /\ [][NextIdempotency]_vars

NextIdempotencySequential ==
    \/ \E input \in IdempotencyInputs : IdempotentCallStartsAlone(input)
    \/ \E id \in DOMAIN idem.calls : HasResolves(id)
    \/ \E id \in DOMAIN idem.calls : AddResolves(id)
    \/ \E id \in DOMAIN idem.calls, outcome \in ExecuteOutcomes :
        UnderlyingExecuteSettles(id, outcome)

SpecIdempotencySequential == InitIdempotency /\ [][NextIdempotencySequential]_vars

NextMiddleware ==
    \/ \E t \in Transforms : CreateMiddleware(t)
    \/ \E next \in PipeArguments : Pipe(next)
    \/ \E tool \in BaseTools : ApplyTo(tool)

SpecMiddleware == Init /\ [][NextMiddleware]_vars

NextTool2agent ==
    \/ \E catchExceptions \in CatchExceptions : Tool2agent(catchExceptions)
    \/ ToolExecuteStarts
    \/ \E outcome \in ParamsExecuteOutcomes : ParamsExecuteSettles(outcome)

SpecTool2agent == Init /\ [][NextTool2agent]_vars

NextInfluenced ==
    \/ \E key \in Names, requires \in InfluenceRequires, influencedBy \in InfluencedByLists :
        InfluencedField(key, requires, influencedBy)
    \/ ToposortInfluenced

SpecInfluenced == Init /\ [][NextInfluenced]_vars

NextConcurrent ==
    \/ \E loose \in Inputs : CallStarts(loose)
    \/ \E loose \in Inputs : OtherStarts(loose)
    \/ CallContinues
    \/ OtherContinues

SpecConcurrent == InitConcurrent /\ [][NextConcurrent]_vars

====
